---------------------------- MODULE Spec2Model ----------------------------
(***************************************************************************)
(* A model of the logger package of iambighead/goutils: configuration      *)
(* validation, the logger factory and its views, the severity-gated log    *)
(* calls, the rotating file sink with its background rotation goroutine,   *)
(* the retention cleanup and the shared Destroy hook.                      *)
(*                                                                         *)
(* Strings whose contents the code inspects (ToLower, comparison, sorting, *)
(* concatenation) are sequences of ASCII codes.  The output directory is a *)
(* function from file names to inode numbers (0 marks a subdirectory); a   *)
(* file's contents are the log calls whose write landed on its inode.      *)
(***************************************************************************)
EXTENDS Integers, Sequences, FiniteSets, TLC

VARIABLES
    cfg,          \* the LoggerConfig handed to InitLoggerFactoryByObj
    proc,         \* "start" | "validated" | "running" | "fatal" | "panic"
    verr,         \* result of Validate: "unset" | "nil" | the error's tag
    loglevel,     \* myLogger.loglevel
    sysl,         \* myLogger.syslogger: "nil" | "open" | "closed"
    sysDestroy,   \* syslogger_destroy != nil
    lprefix,      \* the prefix of the shared *log.Logger (myLogger.logger)
    views,        \* the Logger values returned by the constructor
    todo,         \* per caller: the log calls it still has to make
    calls,        \* per caller: the log calls made, with what each reached
    folder,       \* the output directory itself: "absent" | "present"
    dir,          \* output directory: file name -> inode (0: a subdirectory)
    nextIno,      \* next unused inode number
    logFile,      \* *logFile: [ino, closed]
    newLogFile,   \* rotateLogFile's local: 0 = nil, else the inode just opened
    quitRotation, \* the flag shared by destroyFunc and the rotation goroutine
    rpc,          \* position of the rotation goroutine
    lastHour,     \* the rotation goroutine's lastHour
    currentHour,  \* the rotation goroutine's currentHour (by-time branch)
    clock,        \* wall clock, in hours since 2024-01-01 00:00
    dpc,          \* per Destroy invocation: its position
    pass,         \* the last cleanupLogFiles pass: what it saw and did
    rot,          \* the last rotateLogFile call: what it saw and did
    diag,         \* diagnostics printed so far (fmt.Printf of the failures)
    faults        \* file operations the environment has let fail so far

cfgVars == <<cfg, verr>>
facVars == <<loglevel, sysDestroy, lprefix, views>>
callVars == <<todo, calls>>
fsVars == <<folder, dir, nextIno>>
taskVars == <<newLogFile, rpc, lastHour, currentHour, pass, rot>>
vars == <<cfg, proc, verr, loglevel, sysl, sysDestroy, lprefix, views, todo,
          calls,
          folder, dir, nextIno, logFile, newLogFile, quitRotation, rpc,
          lastHour, currentHour, clock, dpc, pass, rot, diag, faults>>

-----------------------------------------------------------------------------
(* Bounds of the model *)

NWriters == 2          \* concurrent callers of the log methods
MCalls == 1            \* log calls per caller
NDestroy == 2          \* invocations of the shared Destroy hook
MaxViews == 2          \* views created from one factory
MaxTicks == 4          \* hours the wall clock advances
MaxFaults == 1         \* file operations the environment lets fail
StartHour == 22        \* the wall clock at construction (hour 22 of day 1)
NOld == 5              \* rotated files an earlier run may have left behind

(* Program constants *)

LogLevelError == 0
LogLevelInfo == 1
LogLevelDebug == 2

-----------------------------------------------------------------------------
(* Strings *)

sEmpty == <<>>
sDebug == <<100, 101, 98, 117, 103>>      \* "debug"
sInfo == <<105, 110, 102, 111>>           \* "info"
sError == <<101, 114, 114, 111, 114>>     \* "error"
sINFO == <<73, 78, 70, 79>>               \* "INFO"
sDebugCap == <<68, 101, 98, 117, 103>>    \* "Debug"
sWarn == <<119, 97, 114, 110>>            \* "warn"
sUdp == <<117, 100, 112>>                 \* "udp"
sTcp == <<116, 99, 112>>                  \* "tcp"
sUDP == <<85, 68, 80>>                    \* "UDP"
sHttp == <<104, 116, 116, 112>>           \* "http"
sApp == <<97, 112, 112>>                  \* "app"
sKodo == <<107, 111, 100, 111>>           \* "kodo"
sDotLog == <<46, 108, 111, 103>>          \* ".log"
sKodoLog == <<107, 111, 100, 111, 46, 108, 111, 103>>   \* "kodo.log"
sHost == <<104>>                          \* "h"
sDb == <<100, 98>>                        \* "db"
sColonSpace == <<58, 32>>                 \* ": "
sMain == <<109, 97, 105, 110>>            \* "main"
sFmt == <<109>>                           \* "m", the format of every call
sOld == <<111, 108, 100>>                 \* "old", a subdirectory
sZzz == <<122, 122, 122, 46, 116, 120, 116>>   \* "zzz.txt", a foreign file

\* strings.ToLower on the ASCII range
ToLower(s) == [i \in 1..Len(s) |-> IF s[i] \in 65..90 THEN s[i] + 32 ELSE s[i]]

\* Go's < on strings: bytewise lexicographic, a proper prefix first
RECURSIVE StrLess(_, _)
StrLess(a, b) ==
    IF b = <<>> THEN FALSE
    ELSE IF a = <<>> THEN TRUE
    ELSE IF Head(a) # Head(b) THEN Head(a) < Head(b)
    ELSE StrLess(Tail(a), Tail(b))

-----------------------------------------------------------------------------
(* Validate *)

\* Validate with the port's upper limit off by one
ValidatePortOffByOne(c) ==
    IF c.LoggerName = sEmpty THEN "name"
    ELSE IF /\ ToLower(c.Level) # sError
            /\ ToLower(c.Level) # sInfo
            /\ ToLower(c.Level) # sDebug THEN "level"
    ELSE IF c.EnableSyslog /\ c.SyslogHost = sEmpty THEN "host"
    ELSE IF c.EnableSyslog /\ (c.SyslogPort <= 0 \/ c.SyslogPort >= 65535)
        THEN "port"
    ELSE IF /\ c.EnableSyslog
            /\ ToLower(c.SyslogProtocol) # sUdp
            /\ ToLower(c.SyslogProtocol) # sTcp THEN "protocol"
    ELSE IF c.RotationBySize /\ c.MaxFileSizeMB <= 0 THEN "maxsize"
    ELSE IF ~c.RotationBySize /\ c.RotationIntervalHour <= 0 THEN "interval"
    ELSE IF c.MaxLogFiles <= 0 THEN "maxfiles"
    ELSE "nil"

Validate(c) ==
    IF c.LoggerName = sEmpty THEN "name"
    ELSE IF /\ ToLower(c.Level) # sError
            /\ ToLower(c.Level) # sInfo
            /\ ToLower(c.Level) # sDebug THEN "level"
    ELSE IF c.EnableSyslog /\ c.SyslogHost = sEmpty THEN "host"
    ELSE IF c.EnableSyslog /\ (c.SyslogPort <= 0 \/ c.SyslogPort > 65535)
        THEN "port"
    ELSE IF /\ c.EnableSyslog
            /\ ToLower(c.SyslogProtocol) # sUdp
            /\ ToLower(c.SyslogProtocol) # sTcp THEN "protocol"
    ELSE IF c.RotationBySize /\ c.MaxFileSizeMB <= 0 THEN "maxsize"
    ELSE IF ~c.RotationBySize /\ c.RotationIntervalHour <= 0 THEN "interval"
    ELSE IF c.MaxLogFiles <= 0 THEN "maxfiles"
    ELSE "nil"

\* the error of Validate only noted, the construction going on
ValidateStepGoesOn ==
    /\ proc = "start"
    /\ verr' = Validate(cfg)
    /\ proc' = "validated"
    /\ UNCHANGED <<cfg, facVars, sysl, callVars, fsVars, logFile, taskVars,
                   quitRotation, clock, dpc, diag, faults>>

\* InitLoggerFactoryByObj, first statement: Validate, log.Fatalf on an error
ValidateStep ==
    /\ proc = "start"
    /\ verr' = Validate(cfg)
    /\ proc' = IF Validate(cfg) = "nil" THEN "validated" ELSE "fatal"
    /\ UNCHANGED <<cfg, facVars, sysl, callVars, fsVars, logFile, taskVars,
                   quitRotation, clock, dpc, diag, faults>>

-----------------------------------------------------------------------------
(* The factory *)

\* the switch of initLoggerFactory on strings.ToLower(logLevel)
LevelOf(logLevel) ==
    IF ToLower(logLevel) = sDebug THEN LogLevelDebug
    ELSE IF ToLower(logLevel) = sInfo THEN LogLevelInfo
    ELSE IF ToLower(logLevel) = sError THEN LogLevelError
    ELSE LogLevelInfo

\* the main log file's name: loggerName + ".log"
MainFile(c) == c.LoggerName \o sDotLog

\* the protocol check of createSysLogger
SysProtocolOK(protocol) == protocol = sUdp \/ protocol = sTcp

NoFile == [ino |-> 0, closed |-> TRUE]
NoPass == [ran |-> FALSE, listed |-> FALSE, failed |-> {}]
NoRot == [old |-> 0, target |-> sEmpty, renamed |-> FALSE, created |-> FALSE]

\* os.OpenFile(name, O_APPEND|O_CREATE|O_WRONLY): the directory afterwards
OpenCreate(d, name, ino) ==
    IF name \in DOMAIN d THEN d ELSE d @@ (name :> ino)

\* What initLoggerFactory, with createCustomFileLogger and createSysLogger,
\* builds from config c on directory d: os.MkdirAll and os.OpenFile of the
\* main file (log.Fatalf when one fails), the rotation goroutine, and the
\* syslog writer (nil when the protocol check or the dial fails)
Built(c, d, ino, mkdirOK, openOK, dialOK) ==
    LET opened == mkdirOK /\ openOK
                    /\ ~(MainFile(c) \in DOMAIN d /\ d[MainFile(c)] = 0)
        dirAfter == IF opened THEN OpenCreate(d, MainFile(c), ino) ELSE d
        sysOK == opened /\ c.EnableSyslog /\ SysProtocolOK(c.SyslogProtocol)
                    /\ dialOK
    IN  [proc |-> IF opened THEN "running" ELSE "fatal",
         loglevel |-> LevelOf(c.Level),
         folder |-> IF mkdirOK THEN "present" ELSE "absent",
         dir |-> dirAfter,
         nextIno |-> IF opened /\ MainFile(c) \notin DOMAIN d
                     THEN ino + 1 ELSE ino,
         logFile |-> IF opened
                     THEN [ino |-> dirAfter[MainFile(c)], closed |-> FALSE]
                     ELSE NoFile,
         rpc |-> IF opened THEN "startup" ELSE "none",
         sysl |-> IF sysOK THEN "open" ELSE "nil",
         sysDestroy |-> sysOK,
         lprefix |-> IF opened THEN c.LoggerName \o sColonSpace ELSE sEmpty]

\* InitLoggerFactoryByObj after Validate: the call of initLoggerFactory; the
\* environment decides whether MkdirAll, OpenFile and Dial succeed
InitFactory ==
    /\ proc = "validated"
    /\ \E mkdirOK \in BOOLEAN, openOK \in BOOLEAN, dialOK \in BOOLEAN :
         LET b == Built(cfg, dir, nextIno, mkdirOK, openOK, dialOK)
         IN  /\ proc' = b.proc
             /\ loglevel' = b.loglevel
             /\ folder' = IF folder = "present" THEN folder ELSE b.folder
             /\ dir' = b.dir
             /\ nextIno' = b.nextIno
             /\ logFile' = b.logFile
             /\ rpc' = b.rpc
             /\ sysl' = b.sysl
             /\ sysDestroy' = b.sysDestroy
             /\ lprefix' = b.lprefix
    /\ UNCHANGED <<cfgVars, views, callVars, newLogFile, quitRotation,
                   lastHour, currentHour, pass, rot, clock, dpc, diag, faults>>

\* the constructor returned by initLoggerFactory: a copy of myLogger with
\* its own prefix
ViewRec(logPrefix, level, syslogger) ==
    [prefix |-> IF logPrefix # sEmpty THEN logPrefix \o sColonSpace ELSE sEmpty,
     loglevel |-> level,
     syslogger |-> syslogger]

\* a copy that always carries a syslog writer
ViewOfWithSyslog(logPrefix) == ViewRec(logPrefix, loglevel, TRUE)

\* thisLogger := myLogger: the level and the syslog writer of the factory
ViewOf(logPrefix) == ViewRec(logPrefix, loglevel, sysl # "nil")

Prefixes == {sEmpty, sDb}

\* a constructor that opens the main file again for the view it returns
NewViewReopens ==
    /\ proc = "running"
    /\ Len(views) < MaxViews
    /\ \E p \in Prefixes : views' = Append(views, ViewOf(p))
    /\ logFile' = [ino |-> logFile.ino, closed |-> FALSE]
    /\ UNCHANGED <<cfgVars, proc, loglevel, sysl, sysDestroy, lprefix, callVars, fsVars,
                   taskVars, quitRotation, clock, dpc, diag, faults>>

\* one call of the constructor returned by initLoggerFactory
NewView ==
    /\ proc = "running"
    /\ Len(views) < MaxViews
    /\ \E p \in Prefixes : views' = Append(views, ViewOf(p))
    /\ UNCHANGED <<cfgVars, proc, loglevel, sysl, sysDestroy, lprefix, callVars, fsVars,
                   logFile, taskVars, quitRotation, clock, dpc, diag, faults>>

-----------------------------------------------------------------------------
(* The log methods *)

Methods == {"Debugf", "Infof", "Errorf"}

\* the level tag a method puts in the message
Tag(method) ==
    IF method = "Debugf" THEN sDebug
    ELSE IF method = "Infof" THEN sInfo ELSE sError

\* the gate with Infof tested against the debug level
AcceptedInfoAtDebug(l, method) ==
    IF method = "Errorf" THEN TRUE ELSE l.loglevel >= LogLevelDebug

\* the severity gate at the head of Debugf and Infof; Errorf has none
Accepted(l, method) ==
    IF method = "Debugf" THEN l.loglevel >= LogLevelDebug
    ELSE IF method = "Infof" THEN l.loglevel >= LogLevelInfo
    ELSE TRUE

\* the caller segment given from the info level on
CallerSegAtInfo(l) ==
    IF l.loglevel >= LogLevelInfo THEN sMain \o sColonSpace ELSE sEmpty

\* caller := getCallerFuncName() + ": " when the level is debug, else ""
CallerSeg(l) ==
    IF l.loglevel >= LogLevelDebug THEN sMain \o sColonSpace ELSE sEmpty

\* l.prefix + caller + "<tag>: " + format
Compose(l, method) ==
    l.prefix \o CallerSeg(l) \o Tag(method) \o sColonSpace \o sFmt

\* One call of Debugf, Infof or Errorf by caller w.  The file's line is the
\* *log.Logger's prefix and the message (the date and time, between the two,
\* are left out).  The srslog writer
\* redials when its connection was closed (the dial may fail); the
\* io.MultiWriter writes the file first and stops at the first error, so a
\* failed file write also skips the console.
LogCall(w) ==
    /\ proc = "running"
    /\ todo[w] # <<>>
    /\ Head(todo[w]).view <= Len(views)
    /\ LET c == Head(todo[w])
           l == views[c.view]
           ok == Accepted(l, c.method)
           toSys == ok /\ l.syslogger
           toFile == ok /\ ~logFile.closed
       IN  \E redial \in (IF toSys /\ sysl = "closed" THEN BOOLEAN ELSE {FALSE}) :
             /\ sysl' = IF redial THEN "open" ELSE sysl
             /\ calls' = [calls EXCEPT ![w] = Append(@,
                   [view |-> c.view,
                    method |-> c.method,
                    text |-> IF ok THEN Compose(l, c.method) ELSE sEmpty,
                    line |-> IF toFile THEN lprefix \o Compose(l, c.method)
                             ELSE sEmpty,
                    syslog |-> toSys /\ (sysl = "open" \/ redial),
                    file |-> IF toFile THEN logFile.ino ELSE 0,
                    console |-> toFile /\ cfg.EnableConsoleLog])]
             /\ todo' = [todo EXCEPT ![w] = Tail(@)]
    /\ UNCHANGED <<cfgVars, proc, facVars, fsVars, logFile, taskVars,
                   quitRotation, clock, dpc, diag, faults>>

Writers == 1..NWriters

\* the calls whose write landed on inode i: the file's contents
Content(i) ==
    {<<w, k>> \in Writers \X (1..MCalls) :
        k <= Len(calls[w]) /\ calls[w][k].file = i}

\* fileInfo.Size(), one unit per line written
Size(i) == Cardinality(Content(i))

-----------------------------------------------------------------------------
(* Package logger of src/logger/logger.go: the factory without per-view    *)
(* prefix                                                                   *)

\* the constructor returned by InitLoggerFactory:
\* myLogger.logger.SetPrefix(logPrefix + ": "); return &myLogger.  Every view
\* is the one myLogger, which has no prefix field of its own.
LegacyNewView ==
    /\ proc = "running"
    /\ Len(views) < MaxViews
    /\ \E p \in Prefixes :
         /\ lprefix' = p \o sColonSpace
         /\ views' = Append(views, ViewRec(sEmpty, loglevel, sysl # "nil"))
    /\ UNCHANGED <<cfgVars, proc, loglevel, sysl, sysDestroy, callVars, fsVars,
                   logFile, taskVars, quitRotation, clock, dpc, diag, faults>>

\* "<tag>: " + format
LegacyCompose(method) == Tag(method) \o sColonSpace \o sFmt

\* One call of Debugf, Infof or Errorf of package logger by caller w: the
\* same gate and sinks, the message without prefix or caller segment
LegacyLogCall(w) ==
    /\ proc = "running"
    /\ todo[w] # <<>>
    /\ Head(todo[w]).view <= Len(views)
    /\ LET c == Head(todo[w])
           l == views[c.view]
           ok == Accepted(l, c.method)
           toSys == ok /\ l.syslogger
           toFile == ok /\ ~logFile.closed
       IN  \E redial \in (IF toSys /\ sysl = "closed" THEN BOOLEAN ELSE {FALSE}) :
             /\ sysl' = IF redial THEN "open" ELSE sysl
             /\ calls' = [calls EXCEPT ![w] = Append(@,
                   [view |-> c.view,
                    method |-> c.method,
                    text |-> IF ok THEN LegacyCompose(c.method) ELSE sEmpty,
                    line |-> IF toFile THEN lprefix \o LegacyCompose(c.method)
                             ELSE sEmpty,
                    syslog |-> toSys /\ (sysl = "open" \/ redial),
                    file |-> IF toFile THEN logFile.ino ELSE 0,
                    console |-> toFile /\ cfg.EnableConsoleLog])]
             /\ todo' = [todo EXCEPT ![w] = Tail(@)]
    /\ UNCHANGED <<cfgVars, proc, facVars, fsVars, logFile, taskVars,
                   quitRotation, clock, dpc, diag, faults>>

-----------------------------------------------------------------------------
(* The wall clock and the rotated file's name *)

Hour(t) == t % 24
Day(t) == (t \div 24) + 1

TwoDigits(n) == <<48 + (n \div 10), 48 + (n % 10)>>

\* the layout with the hour not padded to two digits
TimestampUnpadded(t) ==
    <<50, 48, 50, 52, 48, 49>> \o TwoDigits(Day(t)) \o <<45>>
        \o (IF Hour(t) < 10 THEN <<48 + Hour(t)>> ELSE TwoDigits(Hour(t)))

\* time.Now().Format("20060102-15"), the clock being in January 2024
Timestamp(t) ==
    <<50, 48, 50, 52, 48, 49>> \o TwoDigits(Day(t)) \o <<45>> \o TwoDigits(Hour(t))

\* fmt.Sprintf("%s.%s", fileName, timestamp)
RotatedName(fileName, t) == fileName \o <<46>> \o Timestamp(t)

Tick ==
    /\ proc = "running"
    /\ clock < StartHour + MaxTicks
    /\ clock' = clock + 1
    /\ UNCHANGED <<cfgVars, proc, facVars, sysl, callVars, fsVars, logFile,
                   taskVars, quitRotation, dpc, diag, faults>>

-----------------------------------------------------------------------------
(* cleanupLogFiles *)

\* the smallest string of a non-empty set
MinStr(S) == CHOOSE x \in S : \A y \in S : y = x \/ StrLess(x, y)

\* sort.Strings
RECURSIVE SortStrings(_)
SortStrings(S) ==
    IF S = {} THEN <<>>
    ELSE <<MinStr(S)>> \o SortStrings(S \ {MinStr(S)})

\* the names cleanupLogFiles collects: not "kodo.log", not a directory
LogFiles(d) == {n \in DOMAIN d : n # sKodoLog /\ d[n] # 0}

\* the slice taken from the wrong end: logFiles[maxLogFiles:]
FilesToDeleteNewest(d, maxLogFiles) ==
    IF Cardinality(LogFiles(d)) > maxLogFiles
    THEN {SortStrings(LogFiles(d))[i] :
             i \in (maxLogFiles + 1)..Cardinality(LogFiles(d))}
    ELSE {}

\* filesToDelete := logFiles[:len(logFiles)-maxLogFiles]
FilesToDelete(d, maxLogFiles) ==
    IF Cardinality(LogFiles(d)) > maxLogFiles
    THEN {SortStrings(LogFiles(d))[i] :
             i \in 1..(Cardinality(LogFiles(d)) - maxLogFiles)}
    ELSE {}

Without(d, gone) == [n \in DOMAIN d \ gone |-> d[n]]

\* One pass of cleanupLogFiles.  os.ReadDir may fail (the pass then does
\* nothing), and so may each os.Remove (that file then stays).
CleanupPass ==
    \E listOK \in BOOLEAN :
    \E failed \in SUBSET (IF listOK THEN FilesToDelete(dir, cfg.MaxLogFiles) ELSE {}) :
        /\ faults + (IF listOK THEN 0 ELSE 1) + Cardinality(failed) <= MaxFaults
        /\ faults' = faults + (IF listOK THEN 0 ELSE 1) + Cardinality(failed)
        /\ dir' = IF listOK
                  THEN Without(dir, FilesToDelete(dir, cfg.MaxLogFiles) \ failed)
                  ELSE dir
        /\ pass' = [ran |-> TRUE, listed |-> listOK, failed |-> failed]
        /\ diag' = diag \cup (IF listOK THEN {} ELSE {"readdir"})
                         \cup (IF failed # {} THEN {"remove"} ELSE {})

-----------------------------------------------------------------------------
(* The rotation goroutine of createCustomFileLogger *)

\* int(rotationInterval.Hours()) for time.Duration(h) * time.Hour: h itself
\* for every h below the overflow of the int64 nanosecond count
IntervalHours(h) == h

\* cleanupLogFiles(logDir, maxLogFiles); lastHour := time.Now().Hour()
TaskStartup ==
    /\ proc = "running"
    /\ rpc = "startup"
    /\ CleanupPass
    /\ lastHour' = Hour(clock)
    /\ rpc' = "check"
    /\ UNCHANGED <<cfgVars, proc, facVars, sysl, callVars, folder, nextIno,
                   logFile, newLogFile, currentHour, rot, quitRotation, clock,
                   dpc>>

\* the loop head without the test of quitRotation
TaskCheckIgnoresQuit ==
    /\ proc = "running"
    /\ rpc = "check"
    /\ rpc' = "poll"
    /\ UNCHANGED <<cfgVars, proc, facVars, sysl, callVars, fsVars, logFile,
                   newLogFile, lastHour, currentHour, pass, rot, quitRotation,
                   clock, dpc, diag, faults>>

\* if quitRotation { return }
TaskCheck ==
    /\ proc = "running"
    /\ rpc = "check"
    /\ rpc' = IF quitRotation THEN "done" ELSE "poll"
    /\ UNCHANGED <<cfgVars, proc, facVars, sysl, callVars, fsVars, logFile,
                   newLogFile, lastHour, currentHour, pass, rot, quitRotation,
                   clock, dpc, diag, faults>>

\* the by-size test with > for >=
SizeDueStrict == ~logFile.closed /\ Size(logFile.ino) > cfg.MaxFileSizeMB

\* the by-size test: logFile.Stat() succeeds and Size() >= maxSize
SizeDue == ~logFile.closed /\ Size(logFile.ino) >= cfg.MaxFileSizeMB

\* by-size branch: Stat and the comparison; then rotateLogFile, or the sleep
TaskPollSize ==
    /\ proc = "running"
    /\ rpc = "poll"
    /\ cfg.RotationBySize
    /\ rpc' = IF SizeDue THEN "rclose" ELSE "check"
    /\ UNCHANGED <<cfgVars, proc, facVars, sysl, callVars, fsVars, logFile,
                   newLogFile, lastHour, currentHour, pass, rot, quitRotation,
                   clock, dpc, diag, faults>>

\* the by-time test without the comparison with lastHour
TimeDueEveryPoll(hour, last) ==
    hour % IntervalHours(cfg.RotationIntervalHour) = 0

\* the by-time test on the hour just read
TimeDue(hour, last) ==
    hour # last /\ hour % IntervalHours(cfg.RotationIntervalHour) = 0

\* by-time branch: currentHour := time.Now().Hour() and the two tests; an
\* hour change that is no multiple only updates lastHour
TaskPollTime ==
    /\ proc = "running"
    /\ rpc = "poll"
    /\ ~cfg.RotationBySize
    /\ currentHour' = Hour(clock)
    /\ IF TimeDue(Hour(clock), lastHour)
       THEN rpc' = "rclose" /\ UNCHANGED lastHour
       ELSE rpc' = "check" /\ lastHour' = Hour(clock)
    /\ UNCHANGED <<cfgVars, proc, facVars, sysl, callVars, fsVars, logFile,
                   newLogFile, pass, rot, quitRotation, clock, dpc, diag,
                   faults>>

\* rotateLogFile: logFile.Close(); on an error (the handle is already
\* closed) it prints and returns, and the goroutine goes on to the cleanup
RotClose ==
    /\ proc = "running"
    /\ rpc = "rclose"
    /\ IF logFile.closed
       THEN /\ rpc' = "cleanup"
            /\ diag' = diag \cup {"close"}
            /\ UNCHANGED <<logFile, rot>>
       ELSE /\ rpc' = "rename"
            /\ logFile' = [logFile EXCEPT !.closed = TRUE]
            /\ rot' = [NoRot EXCEPT !.old = logFile.ino]
            /\ UNCHANGED diag
    /\ UNCHANGED <<cfgVars, proc, facVars, sysl, callVars, fsVars, newLogFile,
                   lastHour, currentHour, pass, quitRotation, clock, dpc,
                   faults>>

\* whether os.Rename(from, to) can succeed on directory d
CanRename(d, from, to) ==
    /\ from \in DOMAIN d
    /\ ~(to \in DOMAIN d /\ d[to] = 0)

\* the directory after a successful os.Rename: an existing target is replaced
Renamed(d, from, to) == (to :> d[from]) @@ Without(d, {from, to})

\* rotateLogFile: the timestamp and os.Rename; a failure is only printed
RotRename ==
    /\ proc = "running"
    /\ rpc = "rename"
    /\ LET fileName == MainFile(cfg)
           target == RotatedName(fileName, clock)
       IN  \E envOK \in BOOLEAN :
             /\ envOK \/ faults < MaxFaults
             /\ faults' = IF envOK THEN faults ELSE faults + 1
             /\ IF envOK /\ CanRename(dir, fileName, target)
                THEN /\ dir' = Renamed(dir, fileName, target)
                     /\ rot' = [rot EXCEPT !.target = target, !.renamed = TRUE]
                     /\ UNCHANGED diag
                ELSE /\ diag' = diag \cup {"rename"}
                     /\ rot' = [rot EXCEPT !.target = target]
                     /\ UNCHANGED dir
    /\ rpc' = "open"
    /\ UNCHANGED <<cfgVars, proc, facVars, sysl, callVars, folder, nextIno,
                   logFile, newLogFile, lastHour, currentHour, pass,
                   quitRotation, clock, dpc>>

\* rotateLogFile: os.OpenFile(fileName, O_APPEND|O_CREATE|O_WRONLY); on a
\* failure newLogFile is nil and the failure is only printed
RotOpen ==
    /\ proc = "running"
    /\ rpc = "open"
    /\ LET fileName == MainFile(cfg)
       IN  \E envOK \in BOOLEAN :
             /\ envOK \/ faults < MaxFaults
             /\ faults' = IF envOK THEN faults ELSE faults + 1
             /\ IF envOK /\ ~(fileName \in DOMAIN dir /\ dir[fileName] = 0)
                THEN /\ dir' = OpenCreate(dir, fileName, nextIno)
                     /\ nextIno' = IF fileName \in DOMAIN dir
                                   THEN nextIno ELSE nextIno + 1
                     /\ newLogFile' = dir'[fileName]
                     /\ rot' = [rot EXCEPT !.created = fileName \notin DOMAIN dir]
                     /\ UNCHANGED diag
                ELSE /\ newLogFile' = 0
                     /\ diag' = diag \cup {"open"}
                     /\ UNCHANGED <<dir, nextIno, rot>>
    /\ rpc' = "swap"
    /\ UNCHANGED <<cfgVars, proc, facVars, sysl, callVars, folder, logFile,
                   lastHour, currentHour, pass, quitRotation, clock, dpc>>

\* rotateLogFile: *logFile = *newLogFile; a nil newLogFile is dereferenced
\* and the process panics
RotSwap ==
    /\ rpc = "swap"
    /\ proc = "running"
    /\ IF newLogFile = 0
       THEN proc' = "panic" /\ UNCHANGED <<logFile, rpc>>
       ELSE /\ logFile' = [ino |-> newLogFile, closed |-> FALSE]
            /\ rpc' = "cleanup"
            /\ UNCHANGED proc
    /\ UNCHANGED <<cfgVars, facVars, sysl, callVars, fsVars, newLogFile,
                   lastHour, currentHour, pass, rot, quitRotation, clock, dpc,
                   diag, faults>>

\* the iteration going on after rotateLogFile without the cleanup
TaskCleanupSkipped ==
    /\ proc = "running"
    /\ rpc = "cleanup"
    /\ lastHour' = IF cfg.RotationBySize THEN lastHour ELSE currentHour
    /\ rpc' = "check"
    /\ UNCHANGED <<cfgVars, proc, facVars, sysl, callVars, fsVars, logFile,
                   newLogFile, currentHour, pass, rot, quitRotation, clock,
                   dpc, diag, faults>>

\* cleanupLogFiles after rotateLogFile; by time, then lastHour = currentHour;
\* then the sleep and the next iteration
TaskCleanup ==
    /\ proc = "running"
    /\ rpc = "cleanup"
    /\ CleanupPass
    /\ lastHour' = IF cfg.RotationBySize THEN lastHour ELSE currentHour
    /\ rpc' = "check"
    /\ UNCHANGED <<cfgVars, proc, facVars, sysl, callVars, folder, nextIno,
                   logFile, newLogFile, currentHour, rot, quitRotation, clock,
                   dpc>>

-----------------------------------------------------------------------------
(* myLogger.Destroy: locallogger_destroy, then syslogger_destroy *)

Destroyers == 1..NDestroy

\* destroyFunc of createCustomFileLogger, first statement: quitRotation = true
DestroyQuit(d) ==
    /\ proc = "running"
    /\ dpc[d] = "idle"
    /\ quitRotation' = TRUE
    /\ dpc' = [dpc EXCEPT ![d] = "close"]
    /\ UNCHANGED <<cfgVars, proc, facVars, sysl, callVars, fsVars, logFile,
                   taskVars, clock, diag, faults>>

\* destroyFunc treating the error of closing a closed handle as fatal
DestroyCloseFatalWhenClosed(d) ==
    /\ proc = "running"
    /\ dpc[d] = "close"
    /\ logFile' = [logFile EXCEPT !.closed = TRUE]
    /\ proc' = IF logFile.closed THEN "panic" ELSE proc
    /\ dpc' = [dpc EXCEPT ![d] = IF sysDestroy THEN "sys" ELSE "done"]
    /\ UNCHANGED <<cfgVars, facVars, sysl, callVars, fsVars, taskVars,
                   quitRotation, clock, diag, faults>>

\* destroyFunc of createCustomFileLogger: logFile.Close(), its error dropped
DestroyClose(d) ==
    /\ proc = "running"
    /\ dpc[d] = "close"
    /\ logFile' = [logFile EXCEPT !.closed = TRUE]
    /\ dpc' = [dpc EXCEPT ![d] = IF sysDestroy THEN "sys" ELSE "done"]
    /\ UNCHANGED <<cfgVars, proc, facVars, sysl, callVars, fsVars, taskVars,
                   quitRotation, clock, diag, faults>>

\* destroyFunc of createSysLogger: syslogWriter.Close()
DestroySys(d) ==
    /\ proc = "running"
    /\ dpc[d] = "sys"
    /\ sysl' = "closed"
    /\ dpc' = [dpc EXCEPT ![d] = "done"]
    /\ UNCHANGED <<cfgVars, proc, facVars, callVars, fsVars, logFile, taskVars,
                   quitRotation, clock, diag, faults>>

-----------------------------------------------------------------------------
(* Configurations and initial states *)

BaseCfg ==
    [LoggerName |-> sApp, Level |-> sInfo, EnableConsoleLog |-> TRUE,
     EnableSyslog |-> FALSE, SyslogHost |-> sHost, SyslogPort |-> 514,
     SyslogProtocol |-> sUdp, RotationBySize |-> TRUE, MaxFileSizeMB |-> 2,
     MaxLogFiles |-> 2, RotationIntervalHour |-> 2]

\* The state in which initLoggerFactory returns for config c on a directory
\* holding pre, every operation of the construction having succeeded; the
\* constructor has been called with prefixes pfx, and the callers are about
\* to make the calls td.
Constructed(c, pre, pfx, td) ==
    LET b == Built(c, pre, 1, TRUE, TRUE, TRUE)
    IN  /\ Validate(c) = "nil"
        /\ cfg = c
        /\ verr = "nil"
        /\ proc = b.proc
        /\ loglevel = b.loglevel
        /\ sysl = b.sysl
        /\ sysDestroy = b.sysDestroy
        /\ lprefix = b.lprefix
        /\ views = [i \in 1..Len(pfx) |->
                       ViewRec(pfx[i], b.loglevel, b.sysl # "nil")]
        /\ todo = td
        /\ calls = [w \in Writers |-> <<>>]
        /\ folder = b.folder
        /\ dir = b.dir
        /\ nextIno = b.nextIno
        /\ logFile = b.logFile
        /\ newLogFile = 0
        /\ quitRotation = FALSE
        /\ rpc = b.rpc
        /\ lastHour = 0
        /\ currentHour = 0
        /\ clock \in StartHour..(StartHour + MaxTicks)
        /\ dpc = [d \in Destroyers |-> "idle"]
        /\ pass = NoPass
        /\ rot = NoRot
        /\ diag = {}
        /\ faults = 0

(* -- the running sink: callers, the rotation goroutine, Destroy -- *)

RunConfigs ==
    {[BaseCfg EXCEPT !.LoggerName = n, !.RotationBySize = bs,
                     !.MaxFileSizeMB = 1, !.MaxLogFiles = 1,
                     !.RotationIntervalHour = 1, !.EnableSyslog = TRUE] :
        n \in {sApp, sKodo}, bs \in BOOLEAN}

\* every caller makes MCalls calls of Errorf, alternating between two views
ErrorCalls ==
    [w \in Writers |->
        [k \in 1..MCalls |-> [view |-> ((k - 1) % 2) + 1, method |-> "Errorf"]]]

\* the clock stands one hour before the last hour of the model
Init ==
    /\ \E c \in RunConfigs : Constructed(c, <<>>, <<sEmpty, sDb>>, ErrorCalls)
    /\ clock = StartHour + MaxTicks - 1

TaskNext ==
    \/ TaskStartup
    \/ TaskCheck
    \/ TaskPollSize
    \/ TaskPollTime
    \/ RotClose
    \/ RotRename
    \/ RotOpen
    \/ RotSwap
    \/ TaskCleanup

DestroyNext ==
    \E d \in Destroyers : DestroyQuit(d) \/ DestroyClose(d) \/ DestroySys(d)

Next ==
    \/ \E w \in Writers : LogCall(w)
    \/ Tick
    \/ TaskNext
    \/ DestroyNext

Spec == Init /\ [][Next]_vars

\* the Go scheduler keeps running the rotation goroutine: each of its steps
\* (a file operation, a sleep of 1 or 10 seconds) ends
FairSpec == Spec /\ WF_vars(TaskNext)

(* -- validation and construction from arbitrary configurations -- *)

AllConfigs ==
    [LoggerName : {sEmpty, sApp},
     Level : {sEmpty, sDebug, sInfo, sError, sINFO, sDebugCap, sWarn},
     EnableConsoleLog : {FALSE},
     EnableSyslog : BOOLEAN,
     SyslogHost : {sEmpty, sHost},
     SyslogPort : {-1, 0, 1, 65535, 65536, 70000},
     SyslogProtocol : {sUdp, sTcp, sUDP, sHttp},
     RotationBySize : BOOLEAN,
     MaxFileSizeMB : {-1, 0, 10},
     MaxLogFiles : {0, 3},
     RotationIntervalHour : {0, 1}]

InitV ==
    /\ cfg \in AllConfigs
    /\ verr = "unset"
    /\ proc = "start"
    /\ loglevel = 0
    /\ sysl = "nil"
    /\ sysDestroy = FALSE
    /\ lprefix = sEmpty
    /\ views = <<>>
    /\ todo = [w \in Writers |-> <<>>]
    /\ calls = [w \in Writers |-> <<>>]
    /\ folder = "absent"
    /\ dir = <<>>
    /\ nextIno = 1
    /\ logFile = NoFile
    /\ newLogFile = 0
    /\ quitRotation = FALSE
    /\ rpc = "none"
    /\ lastHour = 0
    /\ currentHour = 0
    /\ clock = StartHour
    /\ dpc = [d \in Destroyers |-> "idle"]
    /\ pass = NoPass
    /\ rot = NoRot
    /\ diag = {}
    /\ faults = 0

NextV == ValidateStep \/ InitFactory

SpecV == InitV /\ [][NextV]_vars

(* -- views and the severity gate -- *)

GateConfigs ==
    {[BaseCfg EXCEPT !.Level = lv, !.EnableSyslog = sy] :
        lv \in {sDebug, sInfo, sError, sINFO, sDebugCap}, sy \in BOOLEAN}

OneCall == {<<c>> : c \in [view : 1..MaxViews, method : Methods]}

InitGate ==
    /\ \E c \in GateConfigs, td \in [Writers -> OneCall] :
          Constructed(c, <<>>, <<>>, td)
    /\ clock = StartHour

NextGate == NewView \/ \E w \in Writers : LogCall(w)

SpecGate == InitGate /\ [][NextGate]_vars

(* -- rotation by time and retention on a directory with older files -- *)

CleanConfigs ==
    {[BaseCfg EXCEPT !.LoggerName = n, !.RotationBySize = FALSE,
                     !.RotationIntervalHour = 2, !.MaxLogFiles = k] :
        n \in {sApp, sKodo}, k \in {1, 2}}

\* what an earlier run may have left in the directory: rotated files of the
\* first hours of day 1, a subdirectory and a foreign file
OldFiles(c) ==
    [n \in {RotatedName(MainFile(c), t) : t \in 0..(NOld - 1)} |->
        10 + (CHOOSE t \in 0..(NOld - 1) : n = RotatedName(MainFile(c), t))]
    @@ (sOld :> 0) @@ (sZzz :> 9)

\* the directory holds the j oldest of the rotated files, and any of the
\* subdirectory and the foreign file
InitClean ==
    /\ \E c \in CleanConfigs, j \in 0..NOld, other \in SUBSET {sOld, sZzz} :
          Constructed(c,
              [n \in {RotatedName(MainFile(c), t) : t \in 0..(j - 1)} \cup other
                  |-> OldFiles(c)[n]],
              <<>>, [w \in Writers |-> <<>>])
    /\ clock = StartHour

NextClean ==
    \/ Tick
    \/ TaskStartup
    \/ TaskCheck
    \/ TaskPollTime
    \/ RotClose
    \/ RotRename
    \/ RotOpen
    \/ RotSwap
    \/ TaskCleanup

SpecClean == InitClean /\ [][NextClean]_vars

(* -- package logger of src/logger/logger.go: views and log calls -- *)

\* its main file is always "kodo.log"; the logger is named so as well
LegacyConfigs ==
    {[BaseCfg EXCEPT !.LoggerName = sKodo, !.Level = lv, !.EnableSyslog = sy] :
        lv \in {sDebug, sInfo, sError}, sy \in BOOLEAN}

InitLegacy ==
    /\ \E c \in LegacyConfigs, td \in [Writers -> OneCall] :
          Constructed(c, <<>>, <<>>, td)
    /\ clock = StartHour

NextLegacy == LegacyNewView \/ \E w \in Writers : LegacyLogCall(w)

SpecLegacy == InitLegacy /\ [][NextLegacy]_vars

(* -- construction, then views created while the callers, the goroutine
      and Destroy run -- *)

ShareConfigs ==
    {[BaseCfg EXCEPT !.RotationBySize = bs, !.MaxFileSizeMB = 1,
                     !.MaxLogFiles = 1, !.RotationIntervalHour = 1,
                     !.EnableSyslog = TRUE] : bs \in BOOLEAN}

\* caller w makes MCalls calls of Errorf through view w (views beyond
\* MaxViews do not exist; the caller then uses the last one)
ViewCalls ==
    [w \in Writers |->
        [k \in 1..MCalls |->
            [view |-> IF w <= MaxViews THEN w ELSE MaxViews,
             method |-> "Errorf"]]]

\* the state in which InitLoggerFactoryByObj is called with config c, the
\* output directory not existing yet
Unbuilt(c, td) ==
    /\ cfg = c
    /\ verr = "unset"
    /\ proc = "start"
    /\ loglevel = 0
    /\ sysl = "nil"
    /\ sysDestroy = FALSE
    /\ lprefix = sEmpty
    /\ views = <<>>
    /\ todo = td
    /\ calls = [w \in Writers |-> <<>>]
    /\ folder = "absent"
    /\ dir = <<>>
    /\ nextIno = 1
    /\ logFile = NoFile
    /\ newLogFile = 0
    /\ quitRotation = FALSE
    /\ rpc = "none"
    /\ lastHour = 0
    /\ currentHour = 0
    /\ dpc = [d \in Destroyers |-> "idle"]
    /\ pass = NoPass
    /\ rot = NoRot
    /\ diag = {}
    /\ faults = 0

InitShare ==
    /\ \E c \in ShareConfigs : Unbuilt(c, ViewCalls)
    /\ clock = StartHour

NextShare ==
    \/ ValidateStep
    \/ InitFactory
    \/ NewView
    \/ \E w \in Writers : LogCall(w)
    \/ TaskNext
    \/ DestroyNext

SpecShare == InitShare /\ [][NextShare]_vars

-----------------------------------------------------------------------------
(* Properties *)

AllCalls == {<<w, k>> \in Writers \X (1..MCalls) : k <= Len(calls[w])}
Call(id) == calls[id[1]][id[2]]

\* a call produced output: its message reached a sink
Output(c) == c.file # 0 \/ c.console \/ c.syslog

(* C1: severity gating.  While the sinks are healthy, a Debugf call produces
   output exactly when the view's threshold is debug, an Infof call exactly
   when it is info or debug, and an Errorf call always; with Level "debug"
   all three methods produce output, with Level "error" only Errorf does. *)
C1_SeverityGating ==
    \A id \in AllCalls :
        LET c == Call(id)
            threshold == views[c.view].loglevel
            level == ToLower(cfg.Level)
        IN  /\ c.method = "Debugf" => (Output(c) <=> threshold = LogLevelDebug)
            /\ c.method = "Infof" =>
                  (Output(c) <=> threshold \in {LogLevelInfo, LogLevelDebug})
            /\ c.method = "Errorf" => Output(c)
            /\ level = sDebug => Output(c)
            /\ level = sError => (Output(c) <=> c.method = "Errorf")

\* at Level "error" an Infof call was suppressed and an Errorf call written
C1_Witness ==
    /\ ToLower(cfg.Level) = sError
    /\ \E a, b \in AllCalls :
          /\ Call(a).method = "Infof" /\ ~Output(Call(a))
          /\ Call(b).method = "Errorf" /\ Call(b).file # 0

\* the conditions of the claim read on the strings as given
BadAsWritten(c) ==
    \/ c.LoggerName = sEmpty
    \/ c.Level \notin {sError, sInfo, sDebug}
    \/ c.EnableSyslog /\ c.SyslogHost = sEmpty
    \/ c.EnableSyslog /\ (c.SyslogPort < 1 \/ c.SyslogPort > 65535)
    \/ c.EnableSyslog /\ c.SyslogProtocol \notin {sUdp, sTcp}
    \/ c.RotationBySize /\ c.MaxFileSizeMB <= 0
    \/ ~c.RotationBySize /\ c.RotationIntervalHour <= 0
    \/ c.MaxLogFiles <= 0

\* the same conditions with the level and the protocol lower-cased first
BadLowerCased(c) ==
    \/ c.LoggerName = sEmpty
    \/ ToLower(c.Level) \notin {sError, sInfo, sDebug}
    \/ c.EnableSyslog /\ c.SyslogHost = sEmpty
    \/ c.EnableSyslog /\ (c.SyslogPort < 1 \/ c.SyslogPort > 65535)
    \/ c.EnableSyslog /\ ToLower(c.SyslogProtocol) \notin {sUdp, sTcp}
    \/ c.RotationBySize /\ c.MaxFileSizeMB <= 0
    \/ ~c.RotationBySize /\ c.RotationIntervalHour <= 0
    \/ c.MaxLogFiles <= 0

\* nothing but the result of Validate has changed since the call began
Untouched ==
    /\ folder = "absent" /\ dir = <<>> /\ logFile = NoFile
    /\ sysl = "nil" /\ rpc = "none" /\ views = <<>> /\ diag = {}

\* the minimal valid config of the specification
MinimalValid(c) ==
    /\ c.LoggerName # sEmpty /\ c.Level = sInfo /\ ~c.EnableSyslog
    /\ c.RotationBySize /\ c.MaxFileSizeMB = 10 /\ c.MaxLogFiles = 3

(* C2 as stated: Validate returns an error exactly when the name is empty,
   the level is not one of error|info|debug, syslog is enabled with an empty
   host, a port outside 1..65535 or a protocol other than udp/tcp, by-size
   rotation has max size <= 0, by-time rotation has interval <= 0, or
   MaxLogFiles <= 0. *)
C2_AsStated ==
    verr # "unset" => (verr # "nil" <=> BadAsWritten(cfg))

(* C2, amended: the same with the level and the syslog protocol compared
   after lower-casing; the minimal valid config is accepted, and Validate
   changes nothing (no directory, file, connection or goroutine exists when
   it has returned). *)
C2_ValidateExact ==
    /\ verr # "unset" => (verr # "nil" <=> BadLowerCased(cfg))
    /\ verr # "unset" /\ MinimalValid(cfg) => verr = "nil"
    /\ proc = "validated" \/ verr \notin {"unset", "nil"} => Untouched

\* Validate has accepted a config with syslog enabled on port 65535
C2_Witness ==
    /\ verr = "nil" /\ proc = "validated"
    /\ cfg.EnableSyslog /\ cfg.SyslogPort = 65535 /\ cfg.Level = sINFO

\* no Destroy invocation has begun
NotShutDown == \A d \in Destroyers : dpc[d] = "idle"

\* some Destroy invocation has returned
DestroyReturned == \E d \in Destroyers : dpc[d] = "done"

(* C3: with concurrent callers and a rotation, every accepted call's message
   is in a file: no write fails or is lost because it fell between the
   close, rename, reopen and swap of rotateLogFile.  (No Destroy has begun
   and no file operation has failed.) *)
C3_NoWriteLost ==
    NotShutDown /\ faults = 0 => \A id \in AllCalls : Call(id).file # 0

\* the rotation goroutine is out of its loop (or the process is gone)
TaskExited == rpc = "done" \/ proc = "panic"

(* C4: after Destroy is invoked the rotation goroutine eventually leaves its
   loop; every iteration begins with the test of the flag, and once the flag
   is set the test starts no further iteration. *)
C4_TaskStops ==
    /\ (~NotShutDown) ~> TaskExited
    /\ [][rpc' = "poll" /\ rpc # "poll" => rpc = "check" /\ ~quitRotation]_vars
    /\ [][rpc = "check" /\ quitRotation => rpc' \in {"check", "done"}]_vars

\* the goroutine began its loop, Destroy was invoked, the goroutine returned
C4_Witness == quitRotation /\ rpc = "done" /\ pass.ran /\ DestroyReturned

(* C5: once Destroy has returned, the log file handle is closed and stays
   closed, whatever the rotation goroutine was doing when Destroy ran. *)
C5_ClosedAfterDestroy == DestroyReturned => logFile.closed

\* quitRotation set, handle closed, syslog connection closed
ShutDownState == quitRotation /\ logFile.closed /\ sysl # "open"

(* C6: Destroy is idempotent.  Every step of a Destroy invocation leaves the
   process running and establishes its part of the shut-down state (flag
   set, handle closed, connection closed); taken after another invocation
   has returned and in the shut-down state, it changes nothing. *)
C6_DestroyIdempotent ==
    [][\A d \in Destroyers :
         dpc'[d] # dpc[d] =>
            /\ proc' = "running"
            /\ quitRotation'
            /\ dpc[d] = "close" => logFile'.closed
            /\ dpc[d] = "sys" => sysl' = "closed"
            /\ DestroyReturned /\ ShutDownState =>
                  UNCHANGED <<quitRotation, logFile, sysl, fsVars, calls, diag>>
      ]_vars

\* two invocations have returned, the second begun after the first returned
C6_Witness ==
    /\ \A d \in Destroyers : dpc[d] = "done"
    /\ ShutDownState /\ sysl = "closed" /\ rpc = "done"

\* the rotated files of the logger in directory d: <main file>.<suffix>
Rotated(d) ==
    {n \in DOMAIN d :
        /\ d[n] # 0
        /\ Len(n) > Len(MainFile(cfg)) + 1
        /\ SubSeq(n, 1, Len(MainFile(cfg)) + 1) = MainFile(cfg) \o <<46>>}

\* the retention set: the files of d other than the live main log file
RetentionSet(d) == {n \in DOMAIN d : d[n] # 0 /\ n # MainFile(cfg)}

Min2(a, b) == IF a < b THEN a ELSE b

\* a step that is one whole pass of cleanupLogFiles
CleanupStep == rpc \in {"startup", "cleanup"} /\ rpc' = "check"

\* what the retention claim says of one pass, from dir to dir'
RetentionHolds ==
    /\ Cardinality(Rotated(dir')) <= cfg.MaxLogFiles
    /\ \A gone \in Rotated(dir) \ DOMAIN dir', kept \in Rotated(dir') :
          StrLess(gone, kept)
    /\ RetentionSet(dir) = Rotated(dir) =>
          Cardinality(Rotated(dir')) =
             Min2(Cardinality(Rotated(dir)), cfg.MaxLogFiles)

(* C7 as stated: after any cleanup pass at most MaxLogFiles rotated files
   remain, and those that remain are the greatest by name. *)
C7_AsStated == [][CleanupStep => RetentionHolds]_vars

(* C7, amended: after any cleanup pass in which os.ReadDir and every
   os.Remove succeeded, at most MaxLogFiles rotated files remain and every
   rotated file deleted is smaller by name than every rotated file left;
   when the directory holds nothing but the main file and rotated files,
   exactly min(count, MaxLogFiles) rotated files remain (2 of 5 with
   MaxLogFiles = 2). *)
C7_Retention ==
    [][CleanupStep /\ pass'.listed /\ pass'.failed = {} => RetentionHolds]_vars

\* of five rotated files the startup pass left the two newest
C7_Witness ==
    /\ cfg.MaxLogFiles = 2 /\ rpc = "check" /\ rot.old = 0
    /\ pass.ran /\ pass.listed /\ pass.failed = {}
    /\ Rotated(dir) = {RotatedName(MainFile(cfg), NOld - 2),
                       RotatedName(MainFile(cfg), NOld - 1)}
    /\ RetentionSet(dir) = Rotated(dir)

(* C8: a cleanup pass leaves the live main log file <LoggerName>.log and all
   subdirectories out of the retention set, for every logger name: the main
   file is never deleted, nor counted against MaxLogFiles (a pass without
   failures deletes exactly the excess of the other files). *)
C8_MainFileExcluded ==
    [][CleanupStep =>
         /\ MainFile(cfg) \in DOMAIN dir => MainFile(cfg) \in DOMAIN dir'
         /\ \A n \in DOMAIN dir : dir[n] = 0 => n \in DOMAIN dir'
         /\ pass'.listed /\ pass'.failed = {} =>
               Cardinality(RetentionSet(dir')) =
                  Min2(Cardinality(RetentionSet(dir)), cfg.MaxLogFiles)
      ]_vars

\* a step that is the by-size poll: Stat, the comparison, the branch
PollSizeStep == cfg.RotationBySize /\ rpc = "poll" /\ rpc' # "poll"

\* a timestamp-suffixed name of the main file
IsStamped(n) ==
    \E t \in StartHour..(StartHour + MaxTicks) :
        n = RotatedName(MainFile(cfg), t)

(* C9: by size, while no Destroy has begun and the file operations succeed:
   a poll rotates exactly when it observes size >= the maximum; the rotation
   is completed within that poll (close, rename, open, swap, with no return
   to the loop head in between); when the swap is done the old file is under
   a timestamp-suffixed name, a new empty file is at the original path and
   is the handle's file; and calls made from then on land in the new file. *)
C9_SizeRotation ==
    /\ [][PollSizeStep /\ NotShutDown =>
            (rpc' = "rclose" <=> Size(logFile.ino) >= cfg.MaxFileSizeMB)]_vars
    /\ [][NotShutDown' /\ rpc' # rpc =>
            /\ rpc = "rclose" => rpc' = "rename"
            /\ rpc = "rename" => rpc' = "open"
            /\ rpc = "open" => rpc' = "swap"]_vars
    /\ [][/\ cfg.RotationBySize /\ rpc = "swap" /\ rpc' # rpc
           /\ NotShutDown' /\ rot.renamed /\ newLogFile # 0
           => /\ rpc' = "cleanup"
              /\ IsStamped(rot.target)
              /\ rot.target \in DOMAIN dir' /\ dir'[rot.target] = rot.old
              /\ MainFile(cfg) \in DOMAIN dir'
              /\ logFile' = [ino |-> dir'[MainFile(cfg)], closed |-> FALSE]
              /\ logFile'.ino # rot.old
              /\ Size(logFile.ino)' = 0]_vars
    /\ [][/\ cfg.RotationBySize /\ NotShutDown' /\ calls' # calls
           /\ rot.renamed /\ newLogFile # 0 /\ rpc \in {"cleanup", "check", "poll"}
           => \E w \in Writers :
                 /\ Len(calls'[w]) = Len(calls[w]) + 1
                 /\ calls'[w][Len(calls'[w])].file = newLogFile
                 /\ newLogFile # rot.old]_vars

\* a rotation by size is complete: one call is in the renamed file, a later
\* one in the new file at the original path
C9_Witness ==
    /\ cfg.RotationBySize /\ NotShutDown /\ rot.renamed /\ rpc = "check"
    /\ faults = 0
    /\ rot.target \in DOMAIN dir /\ Content(dir[rot.target]) # {}
    /\ ~logFile.closed /\ logFile.ino # rot.old /\ Content(logFile.ino) # {}

\* a step that is the by-time poll: the hour read and the two tests
PollTimeStep == ~cfg.RotationBySize /\ rpc = "poll" /\ rpc' # "poll"

(* C10: by time, a poll rotates if and only if the hour it reads differs
   from lastHour and is a multiple of RotationIntervalHour; an hour change
   that does not rotate sets lastHour at once, one that rotates sets it when
   the rotation and its cleanup are done, to the hour that poll read; so the
   hour that caused a rotation causes no second one. *)
C10_TimeRotation ==
    /\ [][PollTimeStep =>
            /\ rpc' = "rclose" <=>
                  /\ Hour(clock) # lastHour
                  /\ Hour(clock) % cfg.RotationIntervalHour = 0
            /\ currentHour' = Hour(clock)
            /\ rpc' # "rclose" => lastHour' = Hour(clock)]_vars
    /\ [][~cfg.RotationBySize /\ rpc = "cleanup" /\ rpc' # rpc =>
            lastHour' = currentHour]_vars
    /\ [][~cfg.RotationBySize /\ lastHour' # lastHour =>
            rpc \in {"startup", "poll", "cleanup"} /\ rpc' = "check"]_vars
    /\ [](~cfg.RotationBySize /\ rpc \in {"rclose", "rename", "open", "swap", "cleanup"}
            => currentHour # lastHour
               /\ currentHour % cfg.RotationIntervalHour = 0)

\* hour 23 passed without a rotation, hour 0 rotated, lastHour is 0
C10_Witness ==
    /\ ~cfg.RotationBySize /\ cfg.RotationIntervalHour = 2
    /\ rot.renamed /\ rpc = "check" /\ lastHour = 0
    /\ rot.target = RotatedName(MainFile(cfg), 24)

\* the number a string of decimal digits denotes
RECURSIVE DigitsValue(_)
DigitsValue(s) ==
    IF s = <<>> THEN 0
    ELSE 10 * DigitsValue(SubSeq(s, 1, Len(s) - 1)) + (s[Len(s)] - 48)

AllDigits(s) == \A i \in 1..Len(s) : s[i] \in 48..57

\* the part of a rotated name after the main file's name
SuffixOf(n) == SubSeq(n, Len(MainFile(cfg)) + 1, Len(n))

\* the step of rotateLogFile that computes the name and calls os.Rename
RenameStep == rpc = "rename" /\ rpc' = "open"

\* the main file's name, then one dot
MainThenDot(n) ==
    /\ Len(n) > Len(MainFile(cfg)) + 1
    /\ SubSeq(n, 1, Len(MainFile(cfg))) = MainFile(cfg)
    /\ SuffixOf(n)[1] = 46

(* C11 as stated: every rotation renames the live file to <mainfile>, one
   dot, and exactly ten digits: year, month, day and hour of the rotation. *)
C11_AsStated ==
    [][RenameStep =>
         LET n == rot'.target
             x == SuffixOf(n)
         IN  /\ MainThenDot(n)
             /\ Len(x) = 11 /\ AllDigits(SubSeq(x, 2, 11))
             /\ DigitsValue(SubSeq(x, 2, 5)) = 2024
             /\ DigitsValue(SubSeq(x, 6, 7)) = 1
             /\ DigitsValue(SubSeq(x, 8, 9)) = Day(clock)
             /\ DigitsValue(SubSeq(x, 10, 11)) = Hour(clock)
             /\ rot'.renamed => n \in DOMAIN dir' /\ dir'[n] = rot.old
      ]_vars

(* C11, amended: every rotation renames the live file to <mainfile>, one dot,
   the 4-digit year, 2-digit month and 2-digit day of the rotation time, one
   hyphen, and its 2-digit hour (<mainfile>.<YYYYMMDD-HH>), with no other
   characters; when the rename succeeds the old file is under that name. *)
C11_RotatedName ==
    [][RenameStep =>
         LET n == rot'.target
             x == SuffixOf(n)
         IN  /\ MainThenDot(n)
             /\ Len(x) = 12
             /\ AllDigits(SubSeq(x, 2, 9)) /\ x[10] = 45
             /\ AllDigits(SubSeq(x, 11, 12))
             /\ DigitsValue(SubSeq(x, 2, 5)) = 2024
             /\ DigitsValue(SubSeq(x, 6, 7)) = 1
             /\ DigitsValue(SubSeq(x, 8, 9)) = Day(clock)
             /\ DigitsValue(SubSeq(x, 11, 12)) = Hour(clock)
             /\ rot'.renamed => n \in DOMAIN dir' /\ dir'[n] = rot.old
      ]_vars

\* the rotation at midnight of day 2 left the old file under
\* <mainfile>.20240102-00
C11_Witness ==
    /\ rot.renamed /\ rot.old # 0
    /\ rot.target = MainFile(cfg) \o <<46, 50, 48, 50, 52, 48, 49, 48, 50, 45, 48, 48>>
    /\ rot.target \in DOMAIN dir /\ dir[rot.target] = rot.old

\* the open handles of the main log file: the shared *logFile, and the file
\* rotateLogFile has opened and not yet copied into it
OpenHandles ==
    (IF logFile.closed THEN 0 ELSE 1)
        + (IF rpc = "swap" /\ newLogFile # 0 THEN 1 ELSE 0)

\* the rotation goroutine is alive
TaskAlive == rpc \notin {"none", "done"} /\ proc = "running"

(* C12: one handle, one task, whatever the number of views.  At most one
   handle of the main file is open, exactly one while no Destroy has begun
   and no rotation is between its close and its (successful) reopen; the one
   goroutine started by the factory is alive until it returns and none is started
   afterwards; creating a view changes neither the handle, the directory nor
   the goroutine; a Destroy step sets the one flag and closes the one handle,
   and from then on a call through any view finds that handle closed. *)
C12_OneHandleOneTask ==
    /\ [](proc = "running" =>
            /\ OpenHandles <= 1
            /\ /\ NotShutDown /\ rpc \notin {"rename", "open"}
               /\ ~(rpc = "swap" /\ newLogFile = 0)
               => OpenHandles = 1
            /\ NotShutDown => TaskAlive)
    /\ [][rpc = "done" => rpc' = "done"]_vars
    /\ [][views' # views =>
            UNCHANGED <<logFile, fsVars, taskVars, quitRotation, sysl, dpc>>]_vars
    /\ [][\A d \in Destroyers :
            dpc'[d] # dpc[d] =>
               /\ quitRotation'
               /\ dpc[d] = "close" => logFile'.closed
               /\ UNCHANGED views]_vars
    /\ [][\A w \in Writers :
            Len(calls'[w]) > Len(calls[w]) /\ logFile.closed =>
               calls'[w][Len(calls'[w])].file = 0]_vars

\* two views exist, each was written through into the one file, Destroy
\* was invoked once, the handle is closed and the goroutine has returned
C12_Witness ==
    /\ Len(views) = 2 /\ views[1].prefix # views[2].prefix
    /\ \A w \in Writers : Len(calls[w]) = 1
    /\ calls[1][1].view # calls[2][1].view
    /\ calls[1][1].file # 0 /\ calls[1][1].file = calls[2][1].file
    /\ \E d \in Destroyers : dpc[d] = "done"
    /\ logFile.closed /\ rpc = "done" /\ OpenHandles = 0

\* the text a view's argument stands for: the argument and ": ", or nothing
ArgPrefix(p) == IF p # sEmpty THEN p \o sColonSpace ELSE sEmpty

\* the text view i puts before the level tag of a line in the file: the
\* *log.Logger's prefix, then the view's own
LinePrefix(i) == lprefix \o views[i].prefix

(* C13: views are independent in their prefix.  The view a constructor call
   returns puts ArgPrefix(p) on its lines for the argument p of that call
   (after the logger's name where the logger keeps it), so nothing at all
   for the empty argument; a constructor call changes the prefix of no view
   returned before; and two calls of one method through one view write the
   same line. *)
C13_ViewPrefix ==
    /\ [][views' # views =>
            /\ \E p \in Prefixes :
                  lprefix' \o views'[Len(views')].prefix \in
                     {ArgPrefix(p), cfg.LoggerName \o sColonSpace \o ArgPrefix(p)}
            /\ \A i \in 1..Len(views) : LinePrefix(i)' = LinePrefix(i)]_vars
    /\ [](\A a \in AllCalls, b \in AllCalls :
            /\ Call(a).view = Call(b).view /\ Call(a).method = Call(b).method
            /\ Call(a).file # 0 /\ Call(b).file # 0
            => Call(a).line = Call(b).line)

(* C14: for every accepted log call, each healthy sink still receives the
   message whatever happens at the other sinks: the file when its handle is
   open, the console mirror when it is enabled (standard output does not
   fail), syslog when the view has a writer and its connection is up. *)
C14_HealthySinksWritten ==
    [][\A w \in Writers :
         Len(calls'[w]) > Len(calls[w]) =>
            LET c == calls'[w][Len(calls'[w])]
            IN  c.text # sEmpty =>
                  /\ ~logFile.closed => c.file = logFile.ino
                  /\ cfg.EnableConsoleLog => c.console
                  /\ views[c.view].syslogger /\ sysl = "open" => c.syslog
      ]_vars

(* C15: a failure of a step of rotateLogFile (Close, Rename, OpenFile) is
   only printed: the process is not terminated, and the rotation goroutine
   ends only by finding quitRotation set. *)
C15_RotateFailureSwallowed ==
    diag \cap {"close", "rename", "open"} # {} =>
        /\ proc = "running"
        /\ rpc = "done" => quitRotation

\* syslog was enabled with a protocol createSysLogger accepts, and the
\* factory came out without a writer: srslog.Dial failed
DialFailed ==
    /\ cfg.EnableSyslog /\ SysProtocolOK(cfg.SyslogProtocol)
    /\ proc = "running" /\ sysl = "nil"

(* C16: when syslog is enabled and the dial fails, construction completes
   with the main file open and the rotation goroutine started; no view has a
   syslog writer; no call reaches syslog, and a call accepted while the
   handle is open is written to the file; Destroy sets quitRotation and
   closes the handle and is then done, without a step on a syslog
   connection, and no connection ever appears. *)
C16_DialFailure ==
    /\ [][proc = "validated" /\ DialFailed' =>
            /\ ~logFile'.closed
            /\ MainFile(cfg) \in DOMAIN dir'
            /\ logFile'.ino = dir'[MainFile(cfg)]
            /\ rpc' = "startup" /\ ~quitRotation']_vars
    /\ [](DialFailed =>
            /\ ~sysDestroy
            /\ \A i \in 1..Len(views) : ~views[i].syslogger
            /\ \A id \in AllCalls : ~Call(id).syslog
            /\ \A d \in Destroyers : dpc[d] # "sys")
    /\ [][DialFailed =>
            /\ sysl' = "nil"
            /\ \A w \in Writers :
                  Len(calls'[w]) > Len(calls[w]) /\ ~logFile.closed =>
                     calls'[w][Len(calls'[w])].file = logFile.ino
            /\ \A d \in Destroyers :
                  dpc'[d] # dpc[d] =>
                     /\ quitRotation'
                     /\ dpc[d] = "close" =>
                           logFile'.closed /\ dpc'[d] = "done"]_vars

\* the dial failed; a view was created and written through, into the file
\* only; Destroy has returned, the handle is closed, the goroutine is gone
C16_Witness ==
    /\ DialFailed /\ Len(views) >= 1
    /\ \E id \in AllCalls : Call(id).file # 0 /\ ~Call(id).syslog
    /\ \E d \in Destroyers : dpc[d] = "done"
    /\ logFile.closed /\ quitRotation /\ rpc = "done"

(* C17: InitLoggerFactoryByObj runs Validate before it touches a resource.
   Nothing is created, opened, dialled or started before Validate has
   returned nil; and when Validate returns an error the process is ended by
   log.Fatalf with no output directory, no log file or handle, no syslog
   writer, no rotation goroutine and no constructor returned (the factory
   never gets to run). *)
C17_ValidateFirst ==
    /\ [](Validate(cfg) # "nil" =>
            /\ proc \in {"start", "fatal"}
            /\ Untouched /\ nextIno = 1 /\ ~sysDestroy /\ lprefix = sEmpty)
    /\ [](verr \notin {"unset", "nil"} => proc = "fatal")
    /\ [][\/ folder' # folder \/ dir' # dir \/ logFile' # logFile
           \/ sysl' # sysl \/ rpc' # rpc \/ proc' = "running"
           => verr = "nil" /\ proc = "validated"]_vars

\* Validate has rejected a port of 65536 and the process has ended with
\* nothing touched
C17_Witness ==
    /\ verr = "port" /\ cfg.SyslogPort = 65536 /\ proc = "fatal"
    /\ Untouched /\ nextIno = 1

\* the step is one pass of cleanupLogFiles: it lists the directory and
\* removes the files due, or reports what failed
PassRuns ==
    /\ pass'.ran
    /\ pass'.listed /\ pass'.failed = {} =>
          dir' = Without(dir, FilesToDelete(dir, cfg.MaxLogFiles))
    /\ pass'.listed =>
          /\ pass'.failed \subseteq DOMAIN dir'
          /\ dir' = Without(dir, FilesToDelete(dir, cfg.MaxLogFiles)
                                       \ pass'.failed)
    /\ ~pass'.listed => dir' = dir /\ "readdir" \in diag'

\* the positions of the goroutine inside rotateLogFile
InRotate == rpc \in {"rclose", "rename", "open", "swap"}

(* C18: the rotation goroutine runs one cleanup pass before its first poll
   and one after every rotation before the next poll; a poll that does not
   rotate runs none.  The goroutine leaves its start by a pass; it polls only
   from the loop head; a poll either goes back to the loop head, changing
   nothing in the directory, or enters rotateLogFile, whose only exit (the
   process alive) is to the cleanup; and the cleanup is left by a pass, to
   the loop head. *)
C18_CleanupPoints ==
    /\ [](rpc \in {"check", "poll"} \/ InRotate \/ rpc = "cleanup" => pass.ran)
    /\ [][rpc = "startup" /\ rpc' # rpc => rpc' = "check" /\ PassRuns]_vars
    /\ [][rpc' = "poll" /\ rpc # "poll" => rpc = "check"]_vars
    /\ [][rpc = "poll" /\ rpc' # rpc =>
            /\ rpc' \in {"check", "rclose"}
            /\ UNCHANGED <<dir, pass, diag, faults>>]_vars
    /\ [][InRotate /\ rpc' # rpc =>
            (InRotate' \/ rpc' = "cleanup") /\ UNCHANGED pass]_vars
    /\ [][rpc = "cleanup" /\ rpc' # rpc => rpc' = "check" /\ PassRuns]_vars

\* by size: the file was rotated, and the pass after the rotation has
\* removed a file (the directory held more than MaxLogFiles)
C18_Witness ==
    /\ cfg.RotationBySize /\ rot.renamed /\ rpc = "check"
    /\ pass.ran /\ pass.listed /\ pass.failed = {}
    /\ Cardinality(DOMAIN dir) = 1 /\ faults = 0

\* the message without caller segment: prefix, level tag, formatted text
PlainMessage(v, method) == v.prefix \o Tag(method) \o sColonSpace \o sFmt

\* the text has the caller's function name and ": " right after the prefix
HasCallerSegment(text, v) ==
    /\ Len(text) >= Len(v.prefix) + Len(sMain) + 2
    /\ SubSeq(text, Len(v.prefix) + 1, Len(v.prefix) + Len(sMain) + 2)
          = sMain \o sColonSpace

(* C19: the message of an accepted call has the caller segment if and only
   if the view's threshold is debug, whichever of Debugf, Infof and Errorf
   made it; with the segment taken out, and always at threshold info or
   error, the message is the prefix, the level tag and the formatted text. *)
C19_CallerSegment ==
    \A id \in AllCalls :
        LET c == Call(id)
            v == views[c.view]
        IN  c.text # sEmpty =>
              /\ HasCallerSegment(c.text, v) <=> v.loglevel = LogLevelDebug
              /\ v.loglevel # LogLevelDebug => c.text = PlainMessage(v, c.method)
              /\ v.loglevel = LogLevelDebug =>
                    c.text = v.prefix \o sMain \o sColonSpace
                               \o SubSeq(PlainMessage(v, c.method),
                                         Len(v.prefix) + 1,
                                         Len(PlainMessage(v, c.method)))

\* at threshold debug an Infof and an Errorf call carry the segment; the
\* view has a prefix
C19_Witness ==
    /\ loglevel = LogLevelDebug
    /\ \E a \in AllCalls, b \in AllCalls :
          /\ Call(a).method = "Infof" /\ Call(b).method = "Errorf"
          /\ views[Call(a).view].prefix # sEmpty
          /\ HasCallerSegment(Call(a).text, views[Call(a).view])
          /\ HasCallerSegment(Call(b).text, views[Call(b).view])

(* C20: a rotation never destroys rotated data.  The rename of rotateLogFile
   never targets a name that exists already, and no step other than a
   cleanup pass takes a rotated file away or puts another file under its
   name. *)
C20_RotatedDataKept ==
    /\ [][RenameStep => rot'.target \notin DOMAIN dir]_vars
    /\ [][~CleanupStep =>
            \A n \in Rotated(dir) : n \in DOMAIN dir' /\ dir'[n] = dir[n]]_vars

(* C21: Validate and createSysLogger agree on the protocol.  Whenever a
   factory has been built from a config that Validate accepted with syslog
   enabled, the protocol string also passes the check of createSysLogger, in
   any letter case, so that check has not made the syslog writer nil. *)
C21_ProtocolAgreement ==
    verr = "nil" /\ proc = "running" /\ cfg.EnableSyslog =>
        SysProtocolOK(cfg.SyslogProtocol)

=============================================================================
